---------------------------- MODULE Spec2Model ----------------------------
(***************************************************************************)
(* Website Change Radar (website_change_radar_discord.py).                 *)
(*                                                                         *)
(* A text is a sequence of characters, a character a one-character string  *)
(* (the pound sign U+00A3 is written Pound).  The regular expressions of   *)
(* the program are modelled by operators that scan the sequence the way    *)
(* re.search does: leftmost start, greedy repetitions.                     *)
(***************************************************************************)
EXTENDS Integers, Sequences, FiniteSets, TLC

VARIABLES
    file,         \* content of radar_state.json on disk
    pc,           \* position of check_sites
    state,        \* check_sites: the in-memory ledger `state`
    idx,          \* check_sites: index of the site the loop is at
    any_changes,  \* check_sites: any_changes
    cur,          \* check_sites: value / previous_value of the site at hand
    sent,         \* messages handed to send_discord_message in this pass
    summary,      \* the summary line printed at the end of the pass
    loaded,       \* history: what load_state returned in this pass
    outcome,      \* history: per site, what this pass did with it
    obs,          \* history: per site, the value extracted in this pass
    twice,        \* history: per site, the value baselined and saved last pass
    ideal,        \* history: the ledger had every save_state succeeded
    lost,         \* history: some save_state failed so far
    saved,        \* history: what save_state did in this pass
    passes,       \* number of passes started
    call,         \* harness of the pure functions: the arguments
    ret           \* harness of the pure functions: the returned value

vars == <<file, pc, state, idx, any_changes, cur, sent, summary, loaded,
          outcome, obs, twice, ideal, lost, saved, passes, call, ret>>

passVars == <<file, pc, state, idx, any_changes, cur, sent, summary, loaded,
              outcome, obs, twice, ideal, lost, saved, passes>>

-----------------------------------------------------------------------------
(* Characters and character classes of the patterns.                       *)

\* U+00A3, and U+00C2 (the source file spells the pound sign as the two
\* characters U+00C2 U+00A3, and both are in the class of PRICE_PATTERN)
Pound == "pound"
ACirc == "A-circumflex"

Digit == {"0", "1", "2", "3", "4", "5", "6", "7", "8", "9"}

\* \s of a str pattern (the ASCII white space; \v and the Unicode spaces
\* behave the same and are left out of the alphabet)
White == {" ", "\t", "\n", "\r", "\f"}

Upper == {"A","B","C","D","E","F","G","H","I","J","K","L","M","N","O","P","Q",
          "R","S","T","U","V","W","X","Y","Z"}

LowerOf == [c \in Upper |->
    CASE c = "A" -> "a" [] c = "B" -> "b" [] c = "C" -> "c" [] c = "D" -> "d"
      [] c = "E" -> "e" [] c = "F" -> "f" [] c = "G" -> "g" [] c = "H" -> "h"
      [] c = "I" -> "i" [] c = "J" -> "j" [] c = "K" -> "k" [] c = "L" -> "l"
      [] c = "M" -> "m" [] c = "N" -> "n" [] c = "O" -> "o" [] c = "P" -> "p"
      [] c = "Q" -> "q" [] c = "R" -> "r" [] c = "S" -> "s" [] c = "T" -> "t"
      [] c = "U" -> "u" [] c = "V" -> "v" [] c = "W" -> "w" [] c = "X" -> "x"
      [] c = "Y" -> "y" [] c = "Z" -> "z"]

\* re.IGNORECASE compares the case-folded characters
Fold(c) == IF c \in Upper THEN LowerOf[c] ELSE c

Min(a, b) == IF a < b THEN a ELSE b

\* text[:n]
Prefix(text, n) == SubSeq(text, 1, Min(n, Len(text)))

\* text.replace(ch, "")
Remove(text, ch) == SelectSeq(text, LAMBDA c : c # ch)

\* a greedy Class* from position i: the first position not in Class
SkipClass(text, i, Class) ==
    LET stops == {j \in i..(Len(text) + 1) :
                     j = Len(text) + 1 \/ text[j] \notin Class}
    IN  CHOOSE j \in stops : \A k \in stops : j <= k

\* whether the literal lit stands at position i (folded when fold is set)
LitAt(text, i, lit, fold) ==
    /\ i + Len(lit) - 1 <= Len(text)
    /\ \A k \in 1..Len(lit) :
          IF fold THEN Fold(text[i + k - 1]) = Fold(lit[k])
                  ELSE text[i + k - 1] = lit[k]

\* the cap of every fallback snippet, text[:160]
MaxValueLen == 160

NoMatch == <<>>

\* ([0-9][0-9,]*(?:\.[0-9]{2})?) at position i, where text[i] is a digit:
\* the position after the group
NumberEnd(text, i) ==
    LET j == SkipClass(text, i + 1, Digit \cup {","})
    IN  IF /\ j + 2 <= Len(text)
           /\ text[j] = "."
           /\ text[j + 1] \in Digit
           /\ text[j + 2] \in Digit
        THEN j + 3
        ELSE j

\* the leftmost i of starts, as re.search scans
Leftmost(starts) == CHOOSE i \in starts : \A k \in starts : i <= k

PriceSymbols == {ACirc, Pound, "$"}

\* PRICE_PATTERN matched at start i: <<start, group 1 start, end>>
PriceAt(text, i) ==
    IF text[i] \notin PriceSymbols THEN NoMatch
    ELSE LET k == SkipClass(text, i + 1, White)
         IN  IF k <= Len(text) /\ text[k] \in Digit
             THEN <<i, k, NumberEnd(text, k)>>
             ELSE NoMatch

\* PRICE_PATTERN.search(text)
PRICE_PATTERN(text) ==
    LET starts == {i \in 1..Len(text) : PriceAt(text, i) # NoMatch}
    IN  IF starts = {} THEN NoMatch ELSE PriceAt(text, Leftmost(starts))

LitPrevious == <<"p","r","e","v","i","o","u","s">>
LitClose == <<"c","l","o","s","e">>

\* STOCK_PREV_CLOSE_PATTERN matched at start i
StockAt(text, i) ==
    IF ~LitAt(text, i, LitPrevious, TRUE) THEN NoMatch
    ELSE LET a == i + Len(LitPrevious)
             b == SkipClass(text, a, White)
         IN  IF b = a \/ ~LitAt(text, b, LitClose, TRUE) THEN NoMatch
             ELSE LET c == b + Len(LitClose)
                      d == SkipClass(text, c, White)
                  IN  IF d > c /\ d <= Len(text) /\ text[d] \in Digit
                      THEN <<i, d, NumberEnd(text, d)>>
                      ELSE NoMatch

\* STOCK_PREV_CLOSE_PATTERN.search(text)
STOCK_PREV_CLOSE_PATTERN(text) ==
    LET starts == {i \in 1..Len(text) : StockAt(text, i) # NoMatch}
    IN  IF starts = {} THEN NoMatch ELSE StockAt(text, Leftmost(starts))

LitPython == <<"P","y","t","h","o","n">>

\* PYTHON_VERSION_PATTERN matched at start i: <<start, start, end>>
VersionAt(text, i) ==
    IF ~LitAt(text, i, LitPython, FALSE) THEN NoMatch
    ELSE LET a == i + Len(LitPython)
             b == SkipClass(text, a, White)
         IN  IF b = a \/ ~LitAt(text, b, <<"3", ".">>, FALSE) THEN NoMatch
             ELSE LET c == b + 2
                      d == SkipClass(text, c, Digit)
                  IN  IF d = c \/ ~LitAt(text, d, <<".">>, FALSE) THEN NoMatch
                      ELSE LET e == SkipClass(text, d + 1, Digit)
                           IN  IF e = d + 1 THEN NoMatch ELSE <<i, i, e>>

\* PYTHON_VERSION_PATTERN.search(text)
PYTHON_VERSION_PATTERN(text) ==
    LET starts == {i \in 1..Len(text) : VersionAt(text, i) # NoMatch}
    IN  IF starts = {} THEN NoMatch ELSE VersionAt(text, Leftmost(starts))

\* m.group(1) of a price or stock match; m.group(0) of a version match
Group(text, m) == SubSeq(text, m[2], m[3] - 1)

-----------------------------------------------------------------------------
(* Value extraction.                                                       *)

extract_stock_price_value(text) ==
    LET m  == STOCK_PREV_CLOSE_PATTERN(text)
        m2 == PRICE_PATTERN(text)
    IN  IF m # NoMatch THEN <<"$">> \o Remove(Group(text, m), " ")
        ELSE IF m2 # NoMatch
             THEN <<text[m2[1]]>> \o Remove(Group(text, m2), " ")
             ELSE Prefix(text, MaxValueLen)

extract_value(site, text) ==
    IF site.value_type = "stock_price" THEN extract_stock_price_value(text)
    ELSE IF site.value_type = "price"
    THEN LET match == PRICE_PATTERN(text)
         IN  IF match # NoMatch
             THEN <<text[match[1]]>> \o Remove(Group(text, match), " ")
             ELSE Prefix(text, MaxValueLen)
    ELSE IF site.value_type = "version"
    THEN LET m == PYTHON_VERSION_PATTERN(text)
         IN  IF m # NoMatch THEN Group(text, m) ELSE Prefix(text, MaxValueLen)
    ELSE Prefix(text, MaxValueLen)

-----------------------------------------------------------------------------
(* The difference analyzer.  A float is kept as its exact number of         *)
(* hundredths: the token pattern yields at most two fractional digits, and  *)
(* the tokens of the model are far shorter than the 15 significant digits   *)
(* a float holds exactly.                                                   *)

\* Python's None, and a JSON value that is no string (a number, a list)
None == <<"None">>
NonStr == <<"NonStr">>

DigitVal == [c \in Digit |->
    CASE c = "0" -> 0 [] c = "1" -> 1 [] c = "2" -> 2 [] c = "3" -> 3
      [] c = "4" -> 4 [] c = "5" -> 5 [] c = "6" -> 6 [] c = "7" -> 7
      [] c = "8" -> 8 [] c = "9" -> 9]

RECURSIVE IntOf(_)
IntOf(digits) ==
    IF digits = <<>> THEN 0
    ELSE 10 * IntOf(SubSeq(digits, 1, Len(digits) - 1))
         + DigitVal[digits[Len(digits)]]

\* a float, or None where one is expected: [ok, n], n the hundredths
NoNumber == [ok |-> FALSE, n |-> 0]

\* float(number_str); NoNumber where float raises ValueError
Float(number_str) ==
    LET dots == {i \in 1..Len(number_str) : number_str[i] = "."}
        dot  == IF dots = {} THEN Len(number_str) + 1 ELSE Leftmost(dots)
        ip   == SubSeq(number_str, 1, dot - 1)
        fp   == SubSeq(number_str, dot + 1, Len(number_str))
        fp2  == SubSeq(fp \o <<"0", "0">>, 1, 2)
    IN  IF /\ \A i \in 1..Len(number_str) : number_str[i] \in Digit \cup {"."}
           /\ Cardinality(dots) <= 1
           /\ Len(ip) + Len(fp) >= 1
        THEN [ok |-> TRUE, n |-> 100 * IntOf(ip) + IntOf(fp2)]
        ELSE NoNumber

\* as parse_number_from_value, the commas left in number_str
parse_number_keeps_commas(value) ==
    LET starts == {i \in 1..Len(value) : value[i] \in Digit}
    IN  IF starts = {} THEN NoNumber
        ELSE LET k == Leftmost(starts)
             IN  Float(SubSeq(value, k, NumberEnd(value, k) - 1))

parse_number_from_value(value) ==
    LET starts == {i \in 1..Len(value) : value[i] \in Digit}
    IN  IF starts = {} THEN NoNumber
        ELSE LET k == Leftmost(starts)
                 number_str == Remove(SubSeq(value, k, NumberEnd(value, k) - 1), ",")
             IN  Float(number_str)

\* "" is <<>>; "<arrow> <diff:+.2f>" is <<arrow, diff in hundredths>>
describe_difference(old_value, new_value) ==
    LET old_num == parse_number_from_value(old_value)
        new_num == parse_number_from_value(new_value)
    IN  IF ~old_num.ok \/ ~new_num.ok THEN <<>>
        ELSE LET diff == new_num.n - old_num.n
             IN  IF diff > 0 THEN <<"up", diff>>
                 ELSE IF diff < 0 THEN <<"down", diff>>
                 ELSE <<"flat", diff>>

-----------------------------------------------------------------------------
(* Configuration.                                                          *)

SITES == <<
    [id |-> "local_test", url |-> "LOCAL_TEST", css_selector |-> FALSE,
     normalize_whitespace |-> TRUE, value_type |-> "text"],
    [id |-> "stock_msft", url |-> "https://finance.yahoo.com/quote/MSFT",
     css_selector |-> FALSE, normalize_whitespace |-> TRUE,
     value_type |-> "stock_price"],
    [id |-> "book_demo", url |-> "https://books.toscrape.com/",
     css_selector |-> TRUE, normalize_whitespace |-> TRUE,
     value_type |-> "price"],
    [id |-> "blog_python", url |-> "https://blog.python.org/",
     css_selector |-> TRUE, normalize_whitespace |-> TRUE,
     value_type |-> "text"],
    [id |-> "status_github", url |-> "https://www.githubstatus.com/",
     css_selector |-> TRUE, normalize_whitespace |-> TRUE,
     value_type |-> "text"],
    [id |-> "nasa_apod", url |-> "https://apod.nasa.gov/apod/astropix.html",
     css_selector |-> FALSE, normalize_whitespace |-> TRUE,
     value_type |-> "title"],
    [id |-> "python_release", url |-> "https://www.python.org/downloads/",
     css_selector |-> FALSE, normalize_whitespace |-> TRUE,
     value_type |-> "version"] >>

\* the model watches the first NumSites entries of SITES
NumSites == 3

\* entries without "id" or "url" are skipped
to_site_configs(raw_sites) ==
    SelectSeq(raw_sites, LAMBDA entry : {"id", "url"} \subseteq DOMAIN entry)

Sites == to_site_configs(SubSeq(SITES, 1, Min(NumSites, Len(SITES))))

N == Len(Sites)

\* the ids in the order sort_keys=True writes them
SortedIds ==
    <<"blog_python", "book_demo", "local_test", "nasa_apod",
      "python_release", "status_github", "stock_msft">>

-----------------------------------------------------------------------------
(* State helpers.  A JSON object is a function of its keys; an entry is     *)
(* [t, d]: t = "dict" with the object d, t = "falsy" for null, 0, "", [],   *)
(* and t = "truthy" for any other value that is no object.                 *)

Missing == [kind |-> "missing", items |-> <<>>]
Garbage == [kind |-> "garbage", items |-> <<>>]

EmptyLedger == [t |-> "dict", m |-> <<>>]

RECURSIVE ItemsToMap(_)
ItemsToMap(items) ==
    IF items = <<>> THEN <<>>
    ELSE LET last == items[Len(items)]
         IN  (last[1] :> last[2]) @@ ItemsToMap(SubSeq(items, 1, Len(items) - 1))

\* as load_state, the file never read
load_state_forgets(f) == EmptyLedger

load_state(f) ==
    IF f.kind = "missing" THEN EmptyLedger
    ELSE IF f.kind = "garbage" THEN EmptyLedger
    ELSE IF f.kind = "nondict" THEN [t |-> "nondict", m |-> <<>>]
    ELSE [t |-> "dict", m |-> ItemsToMap(f.items)]

\* as Dump, the last key left out
Dump_drops_last(data) ==
    IF data.t # "dict" THEN [kind |-> "nondict", items |-> <<>>]
    ELSE LET keys == SelectSeq(SortedIds, LAMBDA k : k \in DOMAIN data.m)
         IN  [kind |-> "dict",
              items |-> [i \in 1..(Len(keys) - 1) |-> <<keys[i], data.m[keys[i]]>>]]

\* json.dump(data, f, indent=2, sort_keys=True)
Dump(data) ==
    IF data.t # "dict" THEN [kind |-> "nondict", items |-> <<>>]
    ELSE LET keys == SelectSeq(SortedIds, LAMBDA k : k \in DOMAIN data.m)
         IN  [kind |-> "dict",
              items |-> [i \in 1..Len(keys) |-> <<keys[i], data.m[keys[i]]>>]]

compute_hash(text) == <<"sha256">> \o text

Entry(h, v) == [t |-> "dict", d |-> [hash |-> h, value |-> v]]

\* state.get(site.id)
NoneEntry == [t |-> "falsy", d |-> <<>>]
Get(st, id) == IF id \in DOMAIN st.m THEN st.m[id] ELSE NoneEntry

\* `if previous`
Truthy(e) == e.t = "truthy" \/ (e.t = "dict" /\ DOMAIN e.d # {})

-----------------------------------------------------------------------------
(* Fetching.  The HTTP request and the HTML parse are the environment: a    *)
(* fetch either raises or yields the text of the page's title, of the       *)
(* selected nodes or of the whole document, drawn from Pages.               *)

\* " ".join(text.split())
Normalize(text) ==
    LET keep == {i \in 1..Len(text) :
                    \/ text[i] \notin White
                    \/ /\ i > 1
                       /\ text[i - 1] \notin White
                       /\ \E j \in (i + 1)..Len(text) : text[j] \notin White}
        nth(n) == CHOOSE i \in keep : Cardinality({k \in keep : k <= i}) = n
    IN  [n \in 1..Cardinality(keep) |->
            IF text[nth(n)] \in White THEN " " ELSE text[nth(n)]]

\* the readings of time.time() the model draws from
Clock == {<<"1">>, <<"2">>}

LocalTestText == <<"l","o","c","a","l"," ","t","e","s","t"," ","v","a","l","u","e"," ","a","t"," ">>

Pages(site) ==
    CASE site.id = "stock_msft" ->
            {<<"P","r","e","v","i","o","u","s"," "," ","c","l","o","s","e"," ","7",".","2","0">>,
             <<"n","/","a">>}
      [] site.id = "book_demo" ->
            {<<Pound,"5",".","0","0">>, <<Pound,"1",",","5",".","5","0">>}
      [] site.id = "blog_python" -> {<<"P","o","s","t"," ","A">>, <<"P","o","s","t"," ","B">>}
      [] site.id = "status_github" -> {<<"A","l","l"," ","S","y","s","t","e","m","s"," ","O","p","e","r","a","t","i","o","n","a","l">>, <<"D","e","g","r","a","d","e","d">>}
      [] site.id = "nasa_apod" -> {<<"A","P","O","D",":"," ","M","3","1">>, <<"A","P","O","D",":"," ","M","4","2">>}
      [] site.id = "python_release" ->
            {<<"D","o","w","n","l","o","a","d"," ","P","y","t","h","o","n"," ","3",".","1","3",".","2"," ","n","o","w">>, <<"D","o","w","n","l","o","a","d"," ","P","y","t","h","o","n"," ","3",".","1","4",".","0"," ","n","o","w">>}
      [] OTHER -> {}

\* the texts fetch_content(site) can return
fetch_content(site) ==
    IF site.url = "LOCAL_TEST"
    THEN {LocalTestText \o now : now \in Clock}
    ELSE {IF site.normalize_whitespace THEN Normalize(page) ELSE page :
             page \in Pages(site)}

\* whether fetch_content(site) can raise (requests.get, raise_for_status,
\* a selector that finds nothing)
CanRaise(site) == site.url # "LOCAL_TEST"

-----------------------------------------------------------------------------
(* check_sites, one site at a time.                                        *)

\* bound on the number of runs of the program
MaxPasses == 3

NoCur == [value |-> None, previous_value |-> None]

NoNotes == [s \in 1..N |-> <<>>]

\* as Branch, the new hash compared with the stored value
Branch_compares_value(st, id, new_hash) ==
    IF st.t # "dict" THEN "crash"
    ELSE LET previous == Get(st, id)
         IN  IF ~Truthy(previous) THEN "baseline"
             ELSE IF previous.t # "dict" THEN "crash"
             ELSE IF "hash" \notin DOMAIN previous.d THEN "crash"
             ELSE IF previous.d.hash = None THEN "baseline"
             ELSE IF new_hash # previous.d.value THEN "changed"
             ELSE "unchanged"

\* lines 390-404: which way the comparison goes for `value` against st
Branch(st, id, new_hash) ==
    IF st.t # "dict" THEN "crash"                 \* state.get: AttributeError
    ELSE LET previous == Get(st, id)
         IN  IF ~Truthy(previous) THEN "baseline"
             ELSE IF previous.t # "dict" THEN "crash"        \* TypeError
             ELSE IF "hash" \notin DOMAIN previous.d THEN "crash" \* KeyError
             ELSE IF previous.d.hash = None THEN "baseline"
             ELSE IF new_hash # previous.d.hash THEN "changed"
             ELSE "unchanged"

\* previous.get("value") if previous else None
PreviousValue(st, id) ==
    LET previous == Get(st, id)
    IN  IF Truthy(previous) /\ previous.t = "dict" /\ "value" \in DOMAIN previous.d
        THEN previous.d.value
        ELSE None

\* state[site.id] = {"hash": new_hash, "value": value}
SetEntry(st, id, new_hash, value) ==
    [st EXCEPT !.m = (id :> Entry(new_hash, value)) @@ st.m]

\* state[site.id]["hash"] = new_hash; state[site.id]["value"] = value
UpdateFields(st, id, new_hash, value) ==
    [st EXCEPT !.m = (id :> [t |-> "dict",
                             d |-> ("hash" :> new_hash) @@ ("value" :> value)
                                   @@ st.m[id].d]) @@ st.m]

BaselineMessage(site, value) ==
    [kind |-> "baseline", id |-> site.id, previous |-> None, now |-> value,
     change |-> <<>>]

\* as ChangeMessage, previous and now exchanged
ChangeMessage_swapped(site, old_value, new_value) ==
    [kind |-> "change", id |-> site.id, previous |-> new_value,
     now |-> old_value, change |-> describe_difference(old_value, new_value)]

ChangeMessage(site, old_value, new_value) ==
    [kind |-> "change", id |-> site.id, previous |-> old_value,
     now |-> new_value, change |-> describe_difference(old_value, new_value)]

\* the run the history variable `ideal` follows: the same comparison,
\* against the ledger no failed write has touched
IdealStep(site, s, value) ==
    LET h == compute_hash(value)
        b == Branch(ideal.ledger, site.id, h)
    IN  [ledger |-> IF b = "baseline" THEN SetEntry(ideal.ledger, site.id, h, value)
                    ELSE IF b = "changed"
                    THEN UpdateFields(ideal.ledger, site.id, h, value)
                    ELSE ideal.ledger,
         notes  |-> [ideal.notes EXCEPT ![s] =
                        IF b = "baseline" THEN <<"baseline", None, value>>
                        ELSE IF b = "changed"
                        THEN <<"change", PreviousValue(ideal.ledger, site.id), value>>
                        ELSE <<>>]]

Advance ==
    /\ pc' = IF idx = N THEN "save" ELSE "fetch"
    /\ idx' = idx + 1

StartPass ==
    /\ pc \in {"idle", "crashed"}
    /\ passes < MaxPasses
    /\ passes' = passes + 1
    /\ IF N = 0
       THEN UNCHANGED <<file, pc, state, idx, any_changes, cur, sent, summary,
                        loaded, outcome, obs, twice, ideal, lost, saved>>
       ELSE /\ state' = load_state(file)
            /\ loaded' = load_state(file)
            /\ any_changes' = FALSE
            /\ idx' = 1
            /\ pc' = "fetch"
            /\ cur' = NoCur
            /\ sent' = <<>>
            /\ summary' = "none"
            /\ outcome' = [s \in 1..N |-> "none"]
            /\ obs' = [s \in 1..N |-> None]
            /\ ideal' = [ideal EXCEPT !.notes = NoNotes]
            /\ saved' = "pending"
            /\ UNCHANGED <<file, twice, lost>>
    /\ UNCHANGED <<call, ret>>

\* as FetchFails, the exception not caught
FetchFails_aborts ==
    /\ pc = "fetch"
    /\ CanRaise(Sites[idx])
    /\ pc' = "crashed"
    /\ UNCHANGED <<file, state, idx, any_changes, cur, sent, summary, loaded,
                   outcome, obs, twice, ideal, lost, saved, passes, call, ret>>

\* lines 384-386: the fetch raised
FetchFails ==
    /\ pc = "fetch"
    /\ CanRaise(Sites[idx])
    /\ outcome' = [outcome EXCEPT ![idx] = "FetchFailed"]
    /\ Advance
    /\ UNCHANGED <<file, state, any_changes, cur, sent, summary, loaded, obs,
                   twice, ideal, lost, saved, passes, call, ret>>

\* lines 383, 388-400, 405: the fetch returned raw_text
Fetched(raw_text) ==
    /\ pc = "fetch"
    /\ LET site     == Sites[idx]
           value    == extract_value(site, raw_text)
           new_hash == compute_hash(value)
           branch   == Branch(state, site.id, new_hash)
       IN  /\ obs' = [obs EXCEPT ![idx] = value]
           /\ ideal' = IdealStep(site, idx, value)
           /\ CASE branch = "crash" ->
                     /\ pc' = "crashed"
                     /\ UNCHANGED <<state, idx, any_changes, cur, outcome>>
                [] branch = "baseline" ->
                     /\ state' = SetEntry(state, site.id, new_hash, value)
                     /\ cur' = [value |-> value, previous_value |-> None]
                     /\ outcome' = [outcome EXCEPT ![idx] = "Baseline"]
                     /\ pc' = "alert_baseline"
                     /\ UNCHANGED <<idx, any_changes>>
                [] branch = "changed" ->
                     /\ any_changes' = TRUE
                     /\ cur' = [value |-> value,
                                previous_value |-> PreviousValue(state, site.id)]
                     /\ outcome' = [outcome EXCEPT ![idx] = "Changed"]
                     /\ pc' = "alert_change"
                     /\ UNCHANGED <<state, idx>>
                [] branch = "unchanged" ->
                     /\ outcome' = [outcome EXCEPT ![idx] = "Unchanged"]
                     /\ Advance
                     /\ UNCHANGED <<state, any_changes, cur>>
    /\ UNCHANGED <<file, sent, summary, loaded, twice, lost, saved, passes,
                   call, ret>>

FetchReturns ==
    /\ pc = "fetch"
    /\ \E raw_text \in fetch_content(Sites[idx]) : Fetched(raw_text)

\* lines 396-397, alert_baseline
AlertBaseline ==
    /\ pc = "alert_baseline"
    /\ sent' = Append(sent, BaselineMessage(Sites[idx], cur.value))
    /\ cur' = NoCur
    /\ Advance
    /\ UNCHANGED <<file, state, any_changes, summary, loaded, outcome, obs,
                   twice, ideal, lost, saved, passes, call, ret>>

\* line 401, alert_change; re.search raises TypeError on a previous value
\* that is no string
AlertChange ==
    /\ pc = "alert_change"
    /\ IF cur.previous_value \in {None, NonStr}
       THEN /\ pc' = "crashed"
            /\ UNCHANGED sent
       ELSE /\ sent' = Append(sent, ChangeMessage(Sites[idx], cur.previous_value,
                                                  cur.value))
            /\ pc' = "update"
    /\ UNCHANGED <<file, state, idx, any_changes, cur, summary, loaded, outcome,
                   obs, twice, ideal, lost, saved, passes, call, ret>>

\* lines 402-403
UpdateEntry ==
    /\ pc = "update"
    /\ state' = UpdateFields(state, Sites[idx].id, compute_hash(cur.value),
                             cur.value)
    /\ cur' = NoCur
    /\ Advance
    /\ UNCHANGED <<file, any_changes, sent, summary, loaded, outcome, obs,
                   twice, ideal, lost, saved, passes, call, ret>>

\* line 407, save_state writes the file
SaveOk ==
    /\ pc = "save"
    /\ file' = Dump(state)
    /\ saved' = "ok"
    /\ twice' = [s \in 1..N |->
                    IF outcome[s] = "Baseline" THEN obs[s] ELSE None]
    /\ pc' = "summary"
    /\ UNCHANGED <<state, idx, any_changes, cur, sent, summary, loaded, outcome,
                   obs, ideal, lost, passes, call, ret>>

\* as SaveFails, the exception not caught
SaveFails_raises ==
    /\ pc = "save"
    /\ file' \in {file, Garbage}
    /\ saved' = "failed"
    /\ lost' = TRUE
    /\ pc' = "crashed"
    /\ UNCHANGED <<state, idx, any_changes, cur, sent, summary, loaded, outcome,
                   obs, twice, ideal, passes, call, ret>>

\* line 407, save_state fails: open() raised and the file is as it was, or
\* the write broke off and left a document that does not parse
SaveFails ==
    /\ pc = "save"
    /\ file' \in {file, Garbage}
    /\ saved' = "failed"
    /\ lost' = TRUE
    /\ twice' = [s \in 1..N |-> None]
    /\ pc' = "summary"
    /\ UNCHANGED <<state, idx, any_changes, cur, sent, summary, loaded, outcome,
                   obs, ideal, passes, call, ret>>

\* lines 409-412
Summary ==
    /\ pc = "summary"
    /\ summary' = IF any_changes THEN "Changes detected and state saved."
                  ELSE "No changes detected, state saved."
    /\ pc' = "idle"
    /\ UNCHANGED <<file, state, idx, any_changes, cur, sent, loaded, outcome,
                   obs, twice, ideal, lost, saved, passes, call, ret>>

Next ==
    \/ StartPass
    \/ FetchFails
    \/ FetchReturns
    \/ AlertBaseline
    \/ AlertChange
    \/ UpdateEntry
    \/ SaveOk
    \/ SaveFails
    \/ Summary

\* check_sites has not run yet; f is the content of radar_state.json
PassInit(f) ==
    /\ file = f
    /\ pc = "idle"
    /\ state = EmptyLedger
    /\ idx = 1
    /\ any_changes = FALSE
    /\ cur = NoCur
    /\ sent = <<>>
    /\ summary = "none"
    /\ loaded = EmptyLedger
    /\ outcome = [s \in 1..N |-> "none"]
    /\ obs = [s \in 1..N |-> None]
    /\ twice = [s \in 1..N |-> None]
    /\ ideal = [ledger |-> EmptyLedger, notes |-> NoNotes]
    /\ lost = FALSE
    /\ saved = "pending"
    /\ passes = 0

\* a first run on a machine without radar_state.json
Init ==
    /\ PassInit(Missing)
    /\ call = <<>>
    /\ ret = <<>>

Spec == Init /\ [][Next]_vars

-----------------------------------------------------------------------------
(* A state file that the program did not write: every shape json.load can  *)
(* return for one site's entry, and a document that is no object.          *)

StaleHash == compute_hash(<<"o", "l", "d">>)
StaleValue == <<"o", "l", "d">>

EntryShapes ==
    { [t |-> "falsy",  d |-> <<>>],                            \* null, 0, ""
      [t |-> "dict",   d |-> <<>>],                            \* {}
      [t |-> "truthy", d |-> <<>>],                            \* "x", 5, [1]
      [t |-> "dict",   d |-> [value |-> StaleValue]],          \* no "hash"
      [t |-> "dict",   d |-> [hash |-> StaleHash]],            \* no "value"
      [t |-> "dict",   d |-> [hash |-> None, value |-> StaleValue]],
      [t |-> "dict",   d |-> [hash |-> StaleHash, value |-> NonStr]],
      Entry(StaleHash, StaleValue) }

\* a hand-edited or foreign document holds entries for up to this many sites
MaxForeign == 2

\* the documents whose keys are ids of Sites
ObjectFiles ==
    UNION { { Dump([t |-> "dict", m |-> m]) : m \in [ids -> EntryShapes] } :
            ids \in {x \in SUBSET {Sites[s].id : s \in 1..N} :
                        Cardinality(x) <= MaxForeign} }

WellFormed(f) ==
    /\ f.kind = "dict"
    /\ \A i \in 1..Len(f.items) :
          LET e == f.items[i][2]
          IN  e.t = "dict" /\ DOMAIN e.d = {"hash", "value"}
              /\ e.d.hash \notin {None, NonStr} /\ e.d.value \notin {None, NonStr}

\* missing, unreadable or unparseable, parseable but no mapping from site
\* id to a record with both "value" and "hash"
CorruptFiles ==
    {Missing, Garbage, [kind |-> "nondict", items |-> <<>>]}
    \cup {f \in ObjectFiles : ~WellFormed(f)}

InitCorrupt ==
    /\ \E f \in CorruptFiles : PassInit(f)
    /\ call = <<>>
    /\ ret = <<>>

SpecCorrupt == InitCorrupt /\ [][Next]_vars

-----------------------------------------------------------------------------
(* The pure functions, applied to inputs drawn from bounded sets.          *)

\* texts are up to MaxFrags fragments followed by a run of PadChar
MaxFrags == 3

Fragments ==
    { <<"$">>, <<Pound>>, <<" ">>, <<"1">>, <<",">>, <<".", "5", "0">>,
      <<"x">>, <<"P","r","e","v","i","o","u","s"," ","c","l","o","s","e"," ">>,
      <<"P","R","E","V","I","O","U","S"," "," ","C","L","O","S","E"," ">>,
      <<"P","y","t","h","o","n"," ">>, <<"3", ".", "1", ".", "2">> }

RECURSIVE Concat(_)
Concat(parts) ==
    IF parts = <<>> THEN <<>> ELSE parts[1] \o Concat(Tail(parts))

PadChar == "7"
Pad(n) == [i \in 1..n |-> PadChar]

ExtractTexts ==
    { Concat(parts) \o Pad(n) :
        parts \in UNION {[1..k -> Fragments] : k \in 0..MaxFrags},
        n \in {0, MaxValueLen} }

\* the five kinds and one that is none of them
Kinds == {"price", "stock_price", "title", "text", "version", "status"}

InitExtract ==
    /\ PassInit(Missing)
    /\ \E k \in Kinds, t \in ExtractTexts :
          call = [fn |-> "extract_value", done |-> FALSE,
                  site |-> [value_type |-> k], text |-> t]
    /\ ret = None

CallExtract ==
    /\ call.fn = "extract_value"
    /\ ~call.done
    /\ ret' = extract_value(call.site, call.text)
    /\ call' = [call EXCEPT !.done = TRUE]
    /\ UNCHANGED passVars

SpecExtract == InitExtract /\ [][CallExtract]_vars

\* values are strings over DiffAlphabet, the old one up to MaxOldLen long,
\* the new one up to MaxNewLen
MaxOldLen == 4
MaxNewLen == 3
DiffAlphabet == {"1", "2", ",", "."}

Strings(alphabet, n) == UNION {[1..k -> alphabet] : k \in 0..n}

InitDiff ==
    /\ PassInit(Missing)
    /\ \E o \in Strings(DiffAlphabet, MaxOldLen),
          n \in Strings(DiffAlphabet, MaxNewLen) :
          call = [fn |-> "describe_difference", done |-> FALSE,
                  old_value |-> o, new_value |-> n]
    /\ ret = None

CallDiff ==
    /\ call.fn = "describe_difference"
    /\ ~call.done
    /\ ret' = describe_difference(call.old_value, call.new_value)
    /\ call' = [call EXCEPT !.done = TRUE]
    /\ UNCHANGED passVars

SpecDiff == InitDiff /\ [][CallDiff]_vars

-----------------------------------------------------------------------------
(* Vocabulary of the properties.                                            *)

\* site s has been dealt with in the current pass
Done(s) == s < idx

Observed(s) == outcome[s] \in {"Baseline", "Changed", "Unchanged"}

IdOf(s) == Sites[s].id

HasEntry(st, s) == IdOf(s) \in DOMAIN st.m

\* the messages of this pass about site s
Msgs(s) == SelectSeq(sent, LAMBDA m : m.id = IdOf(s))

NewEntry(s) == Entry(compute_hash(obs[s]), obs[s])

\* the ledger holds nothing but entries of configured sites, and a site the
\* loop has not reached has the entry that was loaded
Untouched(s) ==
    /\ HasEntry(state, s) = HasEntry(loaded, s)
    /\ Get(state, IdOf(s)) = Get(loaded, IdOf(s))

-----------------------------------------------------------------------------
(* C1: observing a value has exactly one of three outcomes, decided by the  *)
(* ledger entry and the hash alone: no entry - Baseline, the entry          *)
(* {value, hash(value)} is inserted; a stored hash other than hash(value) - *)
(* Changed(old, new), value and hash are overwritten; the same hash -       *)
(* Unchanged, and the ledger is as it was.  A site the pass has not         *)
(* observed keeps its loaded entry.                                         *)
Thm_C1_ObserveOutcome ==
    /\ DOMAIN state.m \subseteq {IdOf(s) : s \in 1..N}
    /\ \A s \in 1..N :
          IF Done(s) /\ Observed(s)
          THEN IF ~HasEntry(loaded, s)
               THEN /\ outcome[s] = "Baseline"
                    /\ HasEntry(state, s)
                    /\ state.m[IdOf(s)] = NewEntry(s)
               ELSE IF compute_hash(obs[s]) # loaded.m[IdOf(s)].d.hash
               THEN /\ outcome[s] = "Changed"
                    /\ state.m[IdOf(s)] = NewEntry(s)
                    /\ Len(Msgs(s)) = 1
                    /\ Msgs(s)[1].kind = "change"
                    /\ Msgs(s)[1].previous = loaded.m[IdOf(s)].d.value
                    /\ Msgs(s)[1].now = obs[s]
               ELSE /\ outcome[s] = "Unchanged"
                    /\ Untouched(s)
          ELSE outcome[s] \in {"none", "FetchFailed"} => Untouched(s)

\* a change is reported although no numeric difference can be computed
Wit_C1_ChangedWithoutNumber ==
    \E s \in 1..N :
        /\ Done(s)
        /\ outcome[s] = "Changed"
        /\ Len(Msgs(s)) = 1
        /\ Msgs(s)[1].change = <<>>

(* C2: a site baselined with value v in a pass whose state was saved, and   *)
(* yielding v again in the next pass, is Unchanged there: not a second      *)
(* Baseline, not a Changed.                                                 *)
Thm_C2_Idempotent ==
    \A s \in 1..N :
        (saved = "pending" /\ Observed(s) /\ twice[s] # None /\ obs[s] = twice[s])
            => outcome[s] = "Unchanged"

Wit_C2_SameValueTwice ==
    \E s \in 1..N :
        /\ saved = "pending"
        /\ Done(s)
        /\ twice[s] # None
        /\ obs[s] = twice[s]
        /\ outcome[s] = "Unchanged"
        /\ Msgs(s) = <<>>

(* C3: whatever the state file holds, load yields the empty ledger and the  *)
(* pass runs to completion with every fetched site a Baseline.              *)
C3_CorruptStateNeverAborts ==
    /\ pc # "crashed"
    /\ (passes = 1 /\ pc \in {"save", "summary", "idle"}) =>
          /\ loaded = EmptyLedger
          /\ \A s \in 1..N : Observed(s) => outcome[s] = "Baseline"

(* C4: a fetch failure skips the site and nothing more: the pass goes on    *)
(* (it has not crashed and stands at a site or at the save), the failing    *)
(* site's                                                                   *)
(* entry or its absence is as loaded, no message is sent for it, every site *)
(* before the loop index has been either skipped or observed, and the file  *)
(* written at the end is the whole ledger.                                  *)
Thm_C4_FetchFailureSkips ==
    /\ pc # "crashed"
    /\ pc \in {"fetch", "alert_baseline", "alert_change", "update"} => idx \in 1..N
    /\ pc \in {"save", "summary"} => idx = N + 1
    /\ \A s \in 1..N :
          /\ Done(s) => outcome[s] # "none"
          /\ outcome[s] = "FetchFailed" =>
                /\ Untouched(s)
                /\ Msgs(s) = <<>>
          /\ (Done(s) /\ Observed(s)) =>
                /\ HasEntry(state, s)
                /\ state.m[IdOf(s)] = NewEntry(s)
                /\ Len(Msgs(s)) = IF outcome[s] = "Unchanged" THEN 0 ELSE 1
    /\ pc = "save" => \A s \in 1..N : outcome[s] # "none"
    /\ saved = "ok" => load_state(file) = state

\* a site failed, a later site was observed and alerted, the file is written
Wit_C4_FailureThenObserved ==
    \E s, u \in 1..N :
        /\ s < u
        /\ outcome[s] = "FetchFailed"
        /\ outcome[u] \in {"Baseline", "Changed"}
        /\ Len(Msgs(u)) = 1
        /\ saved = "ok"

(* C5: the file is written only when every site of the pass has been dealt  *)
(* with, and what is written holds each key once, for every observed site   *)
(* the entry {value of this pass, its hash}, and for every other key the    *)
(* entry that was loaded; no loaded key is dropped.                         *)
PersistedReflectsPass ==
    (saved = "ok" /\ pc \in {"summary", "idle"}) =>
        /\ file.kind = "dict"
        /\ \A i, j \in 1..Len(file.items) :
              file.items[i][1] = file.items[j][1] => i = j
        /\ DOMAIN loaded.m \subseteq {file.items[i][1] : i \in 1..Len(file.items)}
        /\ \A s \in 1..N :
              LET hits == {i \in 1..Len(file.items) : file.items[i][1] = IdOf(s)}
              IN  IF Observed(s)
                  THEN /\ Cardinality(hits) = 1
                       /\ \A i \in hits : file.items[i][2] = NewEntry(s)
                  ELSE /\ (hits # {}) = HasEntry(loaded, s)
                       /\ \A i \in hits : file.items[i][2] = loaded.m[IdOf(s)]

WrittenOnlyAfterAllSites ==
    [][file' # file =>
          /\ pc = "save"
          /\ idx = N + 1
          /\ \A s \in 1..N : outcome[s] # "none"]_vars

Thm_C5_PersistAfterAllSites == []PersistedReflectsPass /\ WrittenOnlyAfterAllSites

\* a pass that observed one site, skipped another that had an entry, and saved
Wit_C5_SavedWithCarryOver ==
    /\ saved = "ok"
    /\ pc = "summary"
    /\ \E s, u \in 1..N :
          /\ outcome[s] = "FetchFailed"
          /\ HasEntry(loaded, s)
          /\ outcome[u] = "Changed"

-----------------------------------------------------------------------------
(* C6.                                                                      *)

\* what was sent about site s: nothing, or <<kind, previous, now>>
ActualNote(s) ==
    IF Msgs(s) = <<>> THEN <<>>
    ELSE <<Msgs(s)[1].kind, Msgs(s)[1].previous, Msgs(s)[1].now>>

\* the pass treated site s otherwise than it would have, had no write failed
Divergent(s) == Done(s) /\ ActualNote(s) # ideal.notes[s]

\* the messages of the pass are those its outcomes call for
NothingRetracted ==
    Len(sent) = Cardinality({s \in 1..N : Done(s) /\ outcome[s] \in {"Baseline", "Changed"}})

(* C6 as claimed: a failed save is swallowed, and every alert that a lost   *)
(* write brings about is a baseline alert.                                  *)
C6_OnlyDuplicateBaseline ==
    /\ pc # "crashed"
    /\ \A s \in 1..N :
          (Divergent(s) /\ ActualNote(s) # <<>>) => ActualNote(s)[1] = "baseline"

(* C6 as amended: a failed save is swallowed and takes back no message; a   *)
(* pass differs from the pass without lost writes only after a write was    *)
(* lost, and then only by a baseline alert for a site already recorded, by  *)
(* a change alert against the stale entry the file still held, or by no     *)
(* alert where the site is back at the stale value.                         *)
Thm_C6_LostWriteConsequences ==
    /\ pc # "crashed"
    /\ pc \in {"save", "summary"} => NothingRetracted
    /\ \A s \in 1..N :
          Divergent(s) =>
              /\ lost
              /\ \/ /\ outcome[s] = "Baseline"
                    /\ ActualNote(s) = <<"baseline", None, obs[s]>>
                    /\ ideal.notes[s] = <<>> \/ ideal.notes[s][1] = "change"
                 \/ /\ outcome[s] = "Changed"
                    /\ ActualNote(s) = <<"change", loaded.m[IdOf(s)].d.value, obs[s]>>
                    /\ loaded.m[IdOf(s)].d.value # obs[s]
                 \/ /\ outcome[s] = "Unchanged"
                    /\ ActualNote(s) = <<>>
                    /\ ideal.notes[s][1] = "change"
                    /\ loaded.m[IdOf(s)].d.value = obs[s]

\* after a lost write a change already alerted is alerted again
Wit_C6_RepeatedChangeAlert ==
    \E s \in 1..N :
        /\ lost
        /\ Divergent(s)
        /\ ActualNote(s) # <<>>
        /\ ActualNote(s)[1] = "change"
        /\ ideal.notes[s] = <<>>

-----------------------------------------------------------------------------
(* C7: every value extract_value returns is at most 160 characters long.    *)
C7_ValueCapped ==
    (call # <<>> /\ call.fn = "extract_value" /\ call.done)
        => Len(ret) <= MaxValueLen

(* C8: for kind price, a text with a currency-symbol-prefixed number yields *)
(* the symbol of the first one followed by its number with the commas       *)
(* removed; a text without one yields its first 160 characters.             *)
C8_PriceCanonical ==
    (call # <<>> /\ call.fn = "extract_value" /\ call.done
        /\ call.site.value_type = "price")
        => LET m == PRICE_PATTERN(call.text)
           IN  IF m # NoMatch
               THEN ret = <<call.text[m[1]]>> \o Remove(Group(call.text, m), ",")
               ELSE ret = Prefix(call.text, MaxValueLen)

-----------------------------------------------------------------------------
(* C9.                                                                      *)

\* the first numeric token of value, found without the scanner: it starts
\* at the first digit, runs while digits and commas follow, and takes a
\* point with two digits after it
TokenOf(value) ==
    LET a == CHOOSE i \in 1..Len(value) :
                 value[i] \in Digit /\ \A k \in 1..(i - 1) : value[k] \notin Digit
        b == CHOOSE j \in a..Len(value) :
                 /\ \A k \in a..j : value[k] \in Digit \cup {","}
                 /\ j = Len(value) \/ value[j + 1] \notin Digit \cup {","}
        frac == /\ b + 3 <= Len(value)
                /\ value[b + 1] = "."
                /\ value[b + 2] \in Digit
                /\ value[b + 3] \in Digit
    IN  [whole |-> SelectSeq(SubSeq(value, a, b), LAMBDA c : c \in Digit),
         cents |-> IF frac THEN SubSeq(value, b + 2, b + 3) ELSE <<"0", "0">>]

\* its worth in hundredths
WorthOf(value) ==
    LET t == TokenOf(value) IN IntOf(t.whole \o t.cents)

HasDigit(value) == \E i \in 1..Len(value) : value[i] \in Digit

(* C9: the analyzer takes the first numeric token of each value, commas     *)
(* stripped; without a token in either value the result is empty;           *)
(* otherwise delta = new - old, and the direction is up exactly when        *)
(* delta > 0, down exactly when delta < 0, flat exactly when delta = 0.     *)
Thm_C9_Difference ==
    (call # <<>> /\ call.fn = "describe_difference" /\ call.done) =>
        IF ~HasDigit(call.old_value) \/ ~HasDigit(call.new_value)
        THEN ret = <<>>
        ELSE LET delta == WorthOf(call.new_value) - WorthOf(call.old_value)
             IN  /\ Len(ret) = 2
                 /\ ret[2] = delta
                 /\ (ret[1] = "up") = (delta > 0)
                 /\ (ret[1] = "down") = (delta < 0)
                 /\ (ret[1] = "flat") = (delta = 0)

\* two different values whose tokens are worth the same, with commas and a
\* fraction in play
Wit_C9_FlatAcrossCommas ==
    /\ call # <<>>
    /\ call.fn = "describe_difference"
    /\ call.done
    /\ call.old_value # call.new_value
    /\ \E i \in 1..Len(call.old_value) : call.old_value[i] = ","
    /\ Len(ret) = 2
    /\ ret[1] = "flat"

-----------------------------------------------------------------------------
(* C10: a pass sends exactly one message for each site that is Baseline or  *)
(* Changed and none for any other; a change message carries the stored      *)
(* value as previous and the new value as now, and is sent before the       *)
(* entry is overwritten; the summary says "changes detected" exactly when   *)
(* some site was Changed.                                                   *)
Thm_C10_Notifications ==
    /\ \A s \in 1..N :
          /\ Done(s) =>
                Len(Msgs(s)) = IF outcome[s] \in {"Baseline", "Changed"} THEN 1 ELSE 0
          /\ outcome[s] \in {"none", "FetchFailed", "Unchanged"} => Msgs(s) = <<>>
          /\ (Done(s) /\ outcome[s] = "Baseline") =>
                /\ Msgs(s)[1].kind = "baseline"
                /\ Msgs(s)[1].now = obs[s]
          /\ (Done(s) /\ outcome[s] = "Changed") =>
                /\ Msgs(s)[1].kind = "change"
                /\ Msgs(s)[1].previous = loaded.m[IdOf(s)].d.value
                /\ Msgs(s)[1].now = obs[s]
          /\ (outcome[s] = "Changed" /\ Get(state, IdOf(s)) # Get(loaded, IdOf(s))) =>
                Len(Msgs(s)) = 1
    /\ summary # "none" =>
          (summary = "Changes detected and state saved.")
              = (\E s \in 1..N : outcome[s] = "Changed")

\* a pass with a baseline and no change reports no change
Wit_C10_BaselineIsNoChange ==
    /\ summary = "No changes detected, state saved."
    /\ \E s \in 1..N : outcome[s] = "Baseline" /\ Len(Msgs(s)) = 1

=============================================================================
